---- MODULE Spec2Model ----
(***************************************************************************)
(* Seat reservation registry of exp4_nodejs (src/server.js).               *)
(*                                                                         *)
(* src/server.js holds two seat-booking servers over a table `seats`:      *)
(*   - the timer server (lines 491-608): /seats, /lock/:id, /confirm/:id,  *)
(*     /unlock/:id, with a setTimeout expiry callback per lock;            *)
(*   - the api server (lines 296-489): /api/seats, /api/seats/:id/lock,    *)
(*     /confirm, /release, with the cleanExpiredLocks middleware in front  *)
(*     of every request and no timers.                                     *)
(* A behaviour of the model is a run of one of the two servers (variable   *)
(* `server`, chosen at start-up); `seats` is the table of the timer        *)
(* server and `apiSeats` the table of the api server.                      *)
(*                                                                         *)
(* Time is Date.now() counted in model ticks.  LOCK_TTL,                   *)
(* LOCK_EXPIRATION_TIME (60 * 1000 ms in the source) and TIMER_BUFFER (the *)
(* 50 ms added to the setTimeout delay) are scaled down to a few ticks.    *)
(*                                                                         *)
(* The repository's two other programs are modelled beside them, each      *)
(* under a specification of its own: the employee roster CLI               *)
(* (src/employee-management.js, RosterSpec) and the card API               *)
(* (src/server.js lines 1-276, CardSpec).                                  *)
(***************************************************************************)
EXTENDS Integers, FiniteSets, Sequences, TLC

\* ---------------------------------------------------------------- bounds
\* Number of seats in the table (ids 1..NumSeats).
NumSeats == 2
\* Largest value of Date.now() the model explores.
MaxTime == 5
\* Lock time-to-live of the timer server, in ticks.
LOCK_TTL == 2
\* Extra delay of the expiry timer over LOCK_TTL, in ticks.
TIMER_BUFFER == 1
\* Lock time-to-live of the api server, in ticks.
LOCK_EXPIRATION_TIME == 2

\* ---------------------------------------------------------------- values
\* null / undefined of a string field
NULL == "null"
\* A number or timer-handle field: None when null / undefined, else Some(v).
None == <<>>
Some(v) == <<v>>
Val(o) == o[1]

SeatIds == 1..NumSeats
\* ids a request may carry: the seats and one id that is no seat
RequestIds == 1..(NumSeats + 1)
Users == {"U1", "U2"}
\* what a request may carry as its user: a user, or nothing ("")
RequestUsers == Users \cup {""}

VARIABLES server, now, seats, timers, apiSeats, last

vars == <<server, now, seats, timers, apiSeats, last>>

\* The repository's other two programs, each a process of its own:
\* `employees` and the console output of the roster CLI
\* (src/employee-management.js), and `cards`, `nextId` and the status of the
\* last response of the card API (src/server.js lines 1-276).
VARIABLES employees, console, cards, nextId, res

rosterVars == <<employees, console>>

cardVars == <<cards, nextId, res>>

allVars == <<vars, rosterVars, cardVars>>

\* JavaScript truthiness of a number-or-null field
Truthy(o) == o # None /\ Val(o) # 0

\* The response of the last request handled (or of the last timer callback),
\* and for the list requests the snapshot they returned.
Response(op, code, msg, view) ==
    [op |-> op, code |-> code, msg |-> msg, view |-> view]

NoView == <<>>

\* ------------------------------------------------------ the timer server
\* { status: 'available' }
AvailableSeat ==
    [status |-> "available", lockedBy |-> NULL, lockExpiresAt |-> None, timeoutId |-> None]

\* { status: 'booked' }
BookedSeat ==
    [status |-> "booked", lockedBy |-> NULL, lockExpiresAt |-> None, timeoutId |-> None]

\* { status: 'locked', lockedBy: user, lockExpiresAt }
LockedSeat(user, lockExpiresAt) ==
    [status |-> "locked", lockedBy |-> user, lockExpiresAt |-> Some(lockExpiresAt),
     timeoutId |-> None]

\* String(req.query.user || 'anonymous')
QueryUser(q) == IF q = "" THEN "anonymous" ELSE q

\* clearSeatTimer(seat): the pending timers left after clearTimeout(seat.timeoutId).
\* (The handle is also wiped from the record; every caller replaces the record
\* or overwrites the handle right after.)
clearSeatTimer(seat, tm) ==
    IF seat.timeoutId # None THEN tm \ {Val(seat.timeoutId)} ELSE tm

\* setTimeout(..., LOCK_TTL + 50): the handle of a timer armed at time t
TimerHandle(seatId, t) == [seat |-> seatId, due |-> t + LOCK_TTL + TIMER_BUFFER]

\* armSeatExpiry(seatId): clears the timer of the CURRENT record of the seat,
\* arms a new one and stores its handle on that record.
armSeatExpiry(s, tm, seatId, t) ==
    LET seat == s[seatId]
        h == TimerHandle(seatId, t)
    IN  [seats  |-> [s EXCEPT ![seatId].timeoutId = Some(h)],
         timers |-> clearSeatTimer(seat, tm) \cup {h}]

\* The test of the expiry callback and of the lazy expiry in /lock.
ExpiredLock(seat, t) ==
    seat.status = "locked" /\ Truthy(seat.lockExpiresAt) /\ Val(seat.lockExpiresAt) <= t

\* Faulty variant of ExpiryCallback: the record is kept and only its status is
\* reset, so the holder and the deadline of the expired lock stay on it.
ExpiryCallback_StatusOnly(s, seatId, t) ==
    IF ExpiredLock(s[seatId], t)
    THEN [s EXCEPT ![seatId].status = "available"]
    ELSE s

\* Faulty variant of ExpiryCallback: the comparison of the deadline with the
\* current time is reversed.
ExpiryCallback_Reversed(s, seatId, t) ==
    IF /\ s[seatId].status = "locked"
       /\ Truthy(s[seatId].lockExpiresAt)
       /\ Val(s[seatId].lockExpiresAt) >= t
    THEN [s EXCEPT ![seatId] = AvailableSeat]
    ELSE s

\* The body of the setTimeout callback of armSeatExpiry.
ExpiryCallback(s, seatId, t) ==
    IF ExpiredLock(s[seatId], t)
    THEN [s EXCEPT ![seatId] = AvailableSeat]
    ELSE s

\* GET /seats: view[id] = { status: seat.status }
SeatsView(s) == [id \in SeatIds |-> s[id].status]

Outcome(s, tm, code, msg) == [seats |-> s, timers |-> tm, code |-> code, msg |-> msg]

\* Faulty variant of LockResult: the `status === 'locked'` test is left out, so
\* a Lock takes over a running lock.
LockResult_NoLockedTest(s, tm, id, q, t) ==
    IF id \notin SeatIds THEN Outcome(s, tm, 404, "does not exist")
    ELSE
    LET user == QueryUser(q)
        seat == s[id]
        lazy == ExpiredLock(seat, t)
        tm1  == IF lazy THEN clearSeatTimer(seat, tm) ELSE tm
        s1   == IF lazy THEN [s EXCEPT ![id] = AvailableSeat] ELSE s
    IN  IF s1[id].status = "booked" THEN Outcome(s1, tm1, 409, "already booked")
        ELSE LET s2 == [s1 EXCEPT ![id] = LockedSeat(user, t + LOCK_TTL)]
                 a  == armSeatExpiry(s2, tm1, id, t)
             IN  Outcome(a.seats, a.timers, 200, "locked successfully")

\* Faulty variant of LockResult: the `status === 'booked'` test is left out, so
\* a Lock takes a booked seat.
LockResult_NoBookedTest(s, tm, id, q, t) ==
    IF id \notin SeatIds THEN Outcome(s, tm, 404, "does not exist")
    ELSE
    LET user == QueryUser(q)
        seat == s[id]
        lazy == ExpiredLock(seat, t)
        tm1  == IF lazy THEN clearSeatTimer(seat, tm) ELSE tm
        s1   == IF lazy THEN [s EXCEPT ![id] = AvailableSeat] ELSE s
    IN  IF s1[id].status = "locked" THEN Outcome(s1, tm1, 423, "already locked")
        ELSE LET s2 == [s1 EXCEPT ![id] = LockedSeat(user, t + LOCK_TTL)]
                 a  == armSeatExpiry(s2, tm1, id, t)
             IN  Outcome(a.seats, a.timers, 200, "locked successfully")

\* Faulty variant of LockResult: a Lock of an id that has no record creates
\* one instead of answering 404.
LockResult_CreatesSeat(s, tm, id, q, t) ==
    LET user == QueryUser(q)
        s0   == IF id \in DOMAIN s THEN s ELSE (id :> AvailableSeat) @@ s
        seat == s0[id]
        lazy == ExpiredLock(seat, t)
        tm1  == IF lazy THEN clearSeatTimer(seat, tm) ELSE tm
        s1   == IF lazy THEN [s0 EXCEPT ![id] = AvailableSeat] ELSE s0
    IN  IF s1[id].status = "booked" THEN Outcome(s1, tm1, 409, "already booked")
        ELSE IF s1[id].status = "locked" THEN Outcome(s1, tm1, 423, "already locked")
        ELSE LET s2 == [s1 EXCEPT ![id] = LockedSeat(user, t + LOCK_TTL)]
             IN  Outcome(s2, tm1 \cup {TimerHandle(id, t)}, 200, "locked successfully")

\* Faulty variant of LockResult: the lazy expiry does not call clearSeatTimer,
\* so the timer of the expired lock stays pending next to the new one.
LockResult_NoLazyClear(s, tm, id, q, t) ==
    IF id \notin SeatIds THEN Outcome(s, tm, 404, "does not exist")
    ELSE
    LET user == QueryUser(q)
        seat == s[id]
        lazy == ExpiredLock(seat, t)
        s1   == IF lazy THEN [s EXCEPT ![id] = AvailableSeat] ELSE s
    IN  IF s1[id].status = "booked" THEN Outcome(s1, tm, 409, "already booked")
        ELSE IF s1[id].status = "locked" THEN Outcome(s1, tm, 423, "already locked")
        ELSE LET s2 == [s1 EXCEPT ![id] = LockedSeat(user, t + LOCK_TTL)]
                 a  == armSeatExpiry(s2, tm, id, t)
             IN  Outcome(a.seats, a.timers, 200, "locked successfully")

\* Faulty variant of LockResult: the lazy expiry is left out, so a lock whose
\* deadline has passed still keeps others out until its timer fires.
LockResult_NoLazyExpiry(s, tm, id, q, t) ==
    IF id \notin SeatIds THEN Outcome(s, tm, 404, "does not exist")
    ELSE
    LET user == QueryUser(q)
    IN  IF s[id].status = "booked" THEN Outcome(s, tm, 409, "already booked")
        ELSE IF s[id].status = "locked" THEN Outcome(s, tm, 423, "already locked")
        ELSE LET s2 == [s EXCEPT ![id] = LockedSeat(user, t + LOCK_TTL)]
                 a  == armSeatExpiry(s2, tm, id, t)
             IN  Outcome(a.seats, a.timers, 200, "locked successfully")

\* POST /lock/:id
LockResult(s, tm, id, q, t) ==
    IF id \notin SeatIds THEN Outcome(s, tm, 404, "does not exist")
    ELSE
    LET user == QueryUser(q)
        seat == s[id]
        lazy == ExpiredLock(seat, t)
        tm1  == IF lazy THEN clearSeatTimer(seat, tm) ELSE tm
        s1   == IF lazy THEN [s EXCEPT ![id] = AvailableSeat] ELSE s
    IN  IF s1[id].status = "booked" THEN Outcome(s1, tm1, 409, "already booked")
        ELSE IF s1[id].status = "locked" THEN Outcome(s1, tm1, 423, "already locked")
        ELSE LET s2 == [s1 EXCEPT ![id] = LockedSeat(user, t + LOCK_TTL)]
                 a  == armSeatExpiry(s2, tm1, id, t)
             IN  Outcome(a.seats, a.timers, 200, "locked successfully")

\* Faulty variant of ConfirmResult: the `lockedBy !== user` test is left out.
ConfirmResult_NoHolderTest(s, tm, id, q, t) ==
    IF id \notin SeatIds THEN Outcome(s, tm, 404, "does not exist")
    ELSE
    LET seat == s[id]
    IN  IF seat.status # "locked" THEN Outcome(s, tm, 400, "not locked")
        ELSE IF Truthy(seat.lockExpiresAt) /\ Val(seat.lockExpiresAt) <= t
        THEN Outcome([s EXCEPT ![id] = AvailableSeat], clearSeatTimer(seat, tm),
                     408, "lock expired")
        ELSE Outcome([s EXCEPT ![id] = BookedSeat], clearSeatTimer(seat, tm),
                     200, "booked successfully")

\* Faulty variant of ConfirmResult: the booking is written into the record in
\* place (status only), so the deadline of the lock stays on it.
ConfirmResult_StatusOnly(s, tm, id, q, t) ==
    IF id \notin SeatIds THEN Outcome(s, tm, 404, "does not exist")
    ELSE
    LET user == QueryUser(q)
        seat == s[id]
    IN  IF seat.status # "locked" THEN Outcome(s, tm, 400, "not locked")
        ELSE IF Truthy(seat.lockExpiresAt) /\ Val(seat.lockExpiresAt) <= t
        THEN Outcome([s EXCEPT ![id] = AvailableSeat], clearSeatTimer(seat, tm),
                     408, "lock expired")
        ELSE IF seat.lockedBy # user THEN Outcome(s, tm, 403, "locked by another user")
        ELSE Outcome([s EXCEPT ![id].status = "booked"], clearSeatTimer(seat, tm),
                     200, "booked successfully")

\* Faulty variant of ConfirmResult: a successful Confirm does not call
\* clearSeatTimer, so the timer of the booked seat stays pending.
ConfirmResult_KeepsTimer(s, tm, id, q, t) ==
    IF id \notin SeatIds THEN Outcome(s, tm, 404, "does not exist")
    ELSE
    LET user == QueryUser(q)
        seat == s[id]
    IN  IF seat.status # "locked" THEN Outcome(s, tm, 400, "not locked")
        ELSE IF Truthy(seat.lockExpiresAt) /\ Val(seat.lockExpiresAt) <= t
        THEN Outcome([s EXCEPT ![id] = AvailableSeat], clearSeatTimer(seat, tm),
                     408, "lock expired")
        ELSE IF seat.lockedBy # user THEN Outcome(s, tm, 403, "locked by another user")
        ELSE Outcome([s EXCEPT ![id] = BookedSeat], tm, 200, "booked successfully")

\* POST /confirm/:id
ConfirmResult(s, tm, id, q, t) ==
    IF id \notin SeatIds THEN Outcome(s, tm, 404, "does not exist")
    ELSE
    LET user == QueryUser(q)
        seat == s[id]
    IN  IF seat.status # "locked" THEN Outcome(s, tm, 400, "not locked")
        ELSE IF Truthy(seat.lockExpiresAt) /\ Val(seat.lockExpiresAt) <= t
        THEN Outcome([s EXCEPT ![id] = AvailableSeat], clearSeatTimer(seat, tm),
                     408, "lock expired")
        ELSE IF seat.lockedBy # user THEN Outcome(s, tm, 403, "locked by another user")
        ELSE Outcome([s EXCEPT ![id] = BookedSeat], clearSeatTimer(seat, tm),
                     200, "booked successfully")

\* Faulty variant of UnlockResult: the `status === 'booked'` test is left out.
UnlockResult_NoBookedTest(s, tm, id) ==
    IF id \notin SeatIds THEN Outcome(s, tm, 404, "does not exist")
    ELSE
    LET seat == s[id]
    IN  IF seat.status = "available" THEN Outcome(s, tm, 200, "already available")
        ELSE Outcome([s EXCEPT ![id] = AvailableSeat], clearSeatTimer(seat, tm),
                     200, "lock cleared")

\* Faulty variant of UnlockResult: the call of clearSeatTimer is left out, so
\* the timer of the cleared lock stays pending.
UnlockResult_KeepsTimer(s, tm, id) ==
    IF id \notin SeatIds THEN Outcome(s, tm, 404, "does not exist")
    ELSE
    LET seat == s[id]
    IN  IF seat.status = "available" THEN Outcome(s, tm, 200, "already available")
        ELSE IF seat.status = "booked" THEN Outcome(s, tm, 409, "booked; cannot unlock")
        ELSE Outcome([s EXCEPT ![id] = AvailableSeat], tm, 200, "lock cleared")

\* POST /unlock/:id
UnlockResult(s, tm, id) ==
    IF id \notin SeatIds THEN Outcome(s, tm, 404, "does not exist")
    ELSE
    LET seat == s[id]
    IN  IF seat.status = "available" THEN Outcome(s, tm, 200, "already available")
        ELSE IF seat.status = "booked" THEN Outcome(s, tm, 409, "booked; cannot unlock")
        ELSE Outcome([s EXCEPT ![id] = AvailableSeat], clearSeatTimer(seat, tm),
                     200, "lock cleared")

\* -------------------------------------------------------- the api server
\* One element of the `seats` array as created at start-up.
ApiSeat(id) ==
    [id |-> id, status |-> "available", lockedBy |-> NULL, lockedAt |-> None,
     bookedBy |-> NULL]

\* A number-or-null field used in arithmetic (null counts as 0).
NumberOf(o) == IF o = None THEN 0 ELSE Val(o)

\* seat.status = 'available'; seat.lockedBy = null; seat.lockedAt = null;
ApiReleased(seat) ==
    [seat EXCEPT !.status = "available", !.lockedBy = NULL, !.lockedAt = None]

\* The test of cleanExpiredLocks and of the expiry check in /confirm.
ApiLockExpired(seat, t) == t - NumberOf(seat.lockedAt) > LOCK_EXPIRATION_TIME

\* Faulty variant of cleanExpiredLocks: it releases a lock already when its
\* age equals the ttl (>= in place of >).
cleanExpiredLocks_AtDeadline(s, t) ==
    [id \in SeatIds |->
        IF s[id].status = "locked" /\ t - NumberOf(s[id].lockedAt) >= LOCK_EXPIRATION_TIME
        THEN ApiReleased(s[id])
        ELSE s[id]]

\* cleanExpiredLocks: the middleware in front of every request of the api server.
cleanExpiredLocks(s, t) ==
    [id \in SeatIds |->
        IF s[id].status = "locked" /\ ApiLockExpired(s[id], t)
        THEN ApiReleased(s[id])
        ELSE s[id]]

ApiOutcome(s, code, msg) == [seats |-> s, code |-> code, msg |-> msg]

\* seats.find(s => s.id === seatId) finds a seat
ApiFound(s, seatId) == \E i \in DOMAIN s : s[i].id = seatId

ApiFind(s, seatId) == CHOOSE i \in DOMAIN s : s[i].id = seatId

\* POST /api/seats/:id/lock, after the middleware
ApiLockResult(s0, id, userId, t) ==
    LET s == cleanExpiredLocks(s0, t)
    IN  IF userId = "" THEN ApiOutcome(s, 400, "User ID is required")
        ELSE IF ~ApiFound(s, id) THEN ApiOutcome(s, 404, "Seat not found")
        ELSE
        LET i == ApiFind(s, id)
        IN  IF s[i].status # "available"
            THEN ApiOutcome(s, 400, "Seat is " \o s[i].status)
            ELSE ApiOutcome([s EXCEPT ![i].status = "locked", ![i].lockedBy = userId,
                                      ![i].lockedAt = Some(t)],
                            200, "Seat locked successfully")

\* POST /api/seats/:id/confirm, after the middleware.  The middleware and the
\* handler read Date.now() within the same request, modelled as the same
\* tick: a lock the handler would find expired has already been released by
\* the middleware, and the "Lock has expired" branch is never the one taken.
ApiConfirmResult(s0, id, userId, t) ==
    LET s == cleanExpiredLocks(s0, t)
    IN  IF userId = "" THEN ApiOutcome(s, 400, "User ID is required")
        ELSE IF ~ApiFound(s, id) THEN ApiOutcome(s, 404, "Seat not found")
        ELSE
        LET i == ApiFind(s, id)
        IN  IF s[i].status # "locked"
            THEN ApiOutcome(s, 400, "Seat must be locked before confirming")
            ELSE IF s[i].lockedBy # userId
            THEN ApiOutcome(s, 403, "Seat is locked by another user")
            ELSE IF ApiLockExpired(s[i], t)
            THEN ApiOutcome([s EXCEPT ![i] = ApiReleased(s[i])], 400, "Lock has expired")
            ELSE ApiOutcome([s EXCEPT ![i].status = "booked", ![i].bookedBy = userId,
                                      ![i].lockedBy = NULL, ![i].lockedAt = None],
                            200, "Booking confirmed successfully")

\* Faulty variant of ApiReleaseResult: the `lockedBy !== userId` test is left
\* out, so any user releases the lock.
ApiReleaseResult_NoHolderTest(s0, id, userId, t) ==
    LET s == cleanExpiredLocks(s0, t)
    IN  IF userId = "" THEN ApiOutcome(s, 400, "User ID is required")
        ELSE IF ~ApiFound(s, id) THEN ApiOutcome(s, 404, "Seat not found")
        ELSE
        LET i == ApiFind(s, id)
        IN  IF s[i].status # "locked" THEN ApiOutcome(s, 400, "Seat is not locked")
            ELSE ApiOutcome([s EXCEPT ![i] = ApiReleased(s[i])],
                            200, "Seat released successfully")

\* POST /api/seats/:id/release, after the middleware
ApiReleaseResult(s0, id, userId, t) ==
    LET s == cleanExpiredLocks(s0, t)
    IN  IF userId = "" THEN ApiOutcome(s, 400, "User ID is required")
        ELSE IF ~ApiFound(s, id) THEN ApiOutcome(s, 404, "Seat not found")
        ELSE
        LET i == ApiFind(s, id)
        IN  IF s[i].status # "locked" THEN ApiOutcome(s, 400, "Seat is not locked")
            ELSE IF s[i].lockedBy # userId
            THEN ApiOutcome(s, 403, "Seat is locked by another user")
            ELSE ApiOutcome([s EXCEPT ![i] = ApiReleased(s[i])],
                            200, "Seat released successfully")

\* GET /api/seats, after the middleware: data = seats
ApiSeatsView(s) == [id \in SeatIds |-> s[id].status]

\* The deadlines a lock of the timer server can have within MaxTime.
LockDeadlines == LOCK_TTL..(MaxTime - TIMER_BUFFER)

\* ------------------------------------------------- timer server: actions
LockSeat(id, q) ==
    /\ server = "timer"
    /\ LET r == LockResult(seats, timers, id, q, now)
       IN  /\ r.code = 200 => now + LOCK_TTL + TIMER_BUFFER <= MaxTime
           /\ seats' = r.seats
           /\ timers' = r.timers
           /\ last' = Response("lock", r.code, r.msg, NoView)
    /\ UNCHANGED <<server, now, apiSeats, rosterVars, cardVars>>

ConfirmSeat(id, q) ==
    /\ server = "timer"
    /\ LET r == ConfirmResult(seats, timers, id, q, now)
       IN  /\ seats' = r.seats
           /\ timers' = r.timers
           /\ last' = Response("confirm", r.code, r.msg, NoView)
    /\ UNCHANGED <<server, now, apiSeats, rosterVars, cardVars>>

UnlockSeat(id) ==
    /\ server = "timer"
    /\ LET r == UnlockResult(seats, timers, id)
       IN  /\ seats' = r.seats
           /\ timers' = r.timers
           /\ last' = Response("unlock", r.code, r.msg, NoView)
    /\ UNCHANGED <<server, now, apiSeats, rosterVars, cardVars>>

GetSeats ==
    /\ server = "timer"
    /\ last' = Response("list", 200, "", SeatsView(seats))
    /\ UNCHANGED <<server, now, seats, timers, apiSeats, rosterVars, cardVars>>

\* A pending timer whose delay has elapsed runs its callback.
TimerFire(h) ==
    /\ server = "timer"
    /\ h \in timers
    /\ h.due <= now
    /\ timers' = timers \ {h}
    /\ seats' = ExpiryCallback(seats, h.seat, now)
    /\ last' = Response("expiry", 0, "", NoView)
    /\ UNCHANGED <<server, now, apiSeats, rosterVars, cardVars>>

\* Some pending timer whose delay has elapsed runs its callback.
RunTimers == \E h \in timers : TimerFire(h)

\* --------------------------------------------------- api server: actions
ApiLockSeat(id, userId) ==
    /\ server = "api"
    /\ LET r == ApiLockResult(apiSeats, id, userId, now)
       IN  /\ r.code = 200 => now + LOCK_EXPIRATION_TIME <= MaxTime
           /\ apiSeats' = r.seats
           /\ last' = Response("lock", r.code, r.msg, NoView)
    /\ UNCHANGED <<server, now, seats, timers, rosterVars, cardVars>>

ApiConfirmSeat(id, userId) ==
    /\ server = "api"
    /\ LET r == ApiConfirmResult(apiSeats, id, userId, now)
       IN  /\ apiSeats' = r.seats
           /\ last' = Response("confirm", r.code, r.msg, NoView)
    /\ UNCHANGED <<server, now, seats, timers, rosterVars, cardVars>>

ApiReleaseSeat(id, userId) ==
    /\ server = "api"
    /\ LET r == ApiReleaseResult(apiSeats, id, userId, now)
       IN  /\ apiSeats' = r.seats
           /\ last' = Response("release", r.code, r.msg, NoView)
    /\ UNCHANGED <<server, now, seats, timers, rosterVars, cardVars>>

ApiGetSeats ==
    /\ server = "api"
    /\ apiSeats' = cleanExpiredLocks(apiSeats, now)
    /\ last' = Response("list", 200, "", ApiSeatsView(apiSeats'))
    /\ UNCHANGED <<server, now, seats, timers, rosterVars, cardVars>>

\* Date.now() advances.
Tick ==
    /\ now < MaxTime
    /\ now' = now + 1
    /\ UNCHANGED <<server, seats, timers, apiSeats, last, rosterVars, cardVars>>

Next ==
    \/ \E id \in RequestIds, q \in RequestUsers : LockSeat(id, q)
    \/ \E id \in RequestIds, q \in RequestUsers : ConfirmSeat(id, q)
    \/ \E id \in RequestIds : UnlockSeat(id)
    \/ GetSeats
    \/ RunTimers
    \/ \E id \in RequestIds, userId \in RequestUsers : ApiLockSeat(id, userId)
    \/ \E id \in RequestIds, userId \in RequestUsers : ApiConfirmSeat(id, userId)
    \/ \E id \in RequestIds, userId \in RequestUsers : ApiReleaseSeat(id, userId)
    \/ ApiGetSeats
    \/ Tick

\* ================================================= the employee roster CLI
\* src/employee-management.js: a readline menu over the array `employees`.
\* A line typed at a prompt is a sequence of characters; RosterChars are the
\* characters the model types, the blank among them.
RosterChars == {" ", "a", "b"}

\* Longest line typed at the "Enter employee ID" prompts.
MaxIdLen == 2
\* Largest length of `employees` the model explores.
MaxEmployees == 3

\* The lines typed as an employee ID: every string up to MaxIdLen characters.
IdInputs == UNION {[1..k -> RosterChars] : k \in 0..MaxIdLen}

\* The lines typed as an employee name (the name plays no part in any test
\* but the blank test).
NameInputs == {<<>>, <<" ">>, <<"a">>, <<" ", "a">>}

RECURSIVE trimStart(_)
trimStart(s) == IF s # <<>> /\ Head(s) = " " THEN trimStart(Tail(s)) ELSE s

RECURSIVE trimEnd(_)
trimEnd(s) ==
    IF s # <<>> /\ s[Len(s)] = " " THEN trimEnd(SubSeq(s, 1, Len(s) - 1)) ELSE s

\* String.prototype.trim
trim(s) == trimEnd(trimStart(s))

\* new Employee(name, id)
Employee(name, id) == [name |-> name, id |-> id]

\* employees.find(emp => emp.id === id) finds an employee
FindEmployee(emps, id) == \E i \in 1..Len(emps) : emps[i].id = id

\* employees.filter(emp => emp.id !== id)
RECURSIVE FilterOut(_, _)
FilterOut(emps, id) ==
    IF emps = <<>> THEN <<>>
    ELSE IF Head(emps).id # id THEN <<Head(emps)>> \o FilterOut(Tail(emps), id)
    ELSE FilterOut(Tail(emps), id)

\* addEmployee with `name` and `id` typed at its two prompts
AddEmployee(name, id) ==
    /\ IF trim(name) = <<>>
       THEN employees' = employees /\ console' = "name cannot be empty"
       ELSE IF trim(id) = <<>>
       THEN employees' = employees /\ console' = "ID cannot be empty"
       ELSE IF FindEmployee(employees, id)
       THEN employees' = employees /\ console' = "already exists"
       ELSE /\ Len(employees) < MaxEmployees
            /\ employees' = Append(employees, Employee(trim(name), trim(id)))
            /\ console' = "added"
    /\ UNCHANGED <<vars, cardVars>>

\* listEmployees
ListEmployees ==
    /\ console' = (IF Len(employees) = 0 THEN "No employees found" ELSE "list")
    /\ UNCHANGED <<employees, vars, cardVars>>

\* removeEmployee with `id` typed at its prompt (no prompt on an empty list)
RemoveEmployee(id) ==
    /\ IF Len(employees) = 0
       THEN employees' = employees /\ console' = "No employees to remove"
       ELSE IF trim(id) = <<>>
       THEN employees' = employees /\ console' = "ID cannot be empty"
       ELSE /\ employees' = FilterOut(employees, trim(id))
            /\ console' = (IF Len(employees') < Len(employees)
                           THEN "removed" ELSE "No employee found")
    /\ UNCHANGED <<vars, cardVars>>

\* searchEmployee with `id` typed at its prompt (no prompt on an empty list)
SearchEmployee(id) ==
    /\ console' = (IF Len(employees) = 0 THEN "No employees to search"
                   ELSE IF trim(id) = <<>> THEN "ID cannot be empty"
                   ELSE IF FindEmployee(employees, trim(id)) THEN "Employee Found"
                   ELSE "No employee found")
    /\ UNCHANGED <<employees, vars, cardVars>>

\* showMenuAndGetChoice: choices 1 to 4
RosterNext ==
    \/ \E name \in NameInputs, id \in IdInputs : AddEmployee(name, id)
    \/ ListEmployees
    \/ \E id \in IdInputs : RemoveEmployee(id)
    \/ \E id \in IdInputs : SearchEmployee(id)

\* ============================================================ the card API
\* src/server.js lines 1-276: an express API over the array `cards`.
\* validSuits and validValues of validateCard
validSuits == {"Hearts", "Diamonds", "Clubs", "Spades"}

validValues == {"A", "2", "3", "4", "5", "6", "7", "8", "9", "10", "J", "Q", "K"}

\* req.body.suit and req.body.value as the model sends them: a valid one, an
\* invalid one, or none ("").  The two valid pairs are the cards with ids 1
\* and 5 of the initial collection.
SuitInputs == {"Hearts", "Stars", ""}

ValueInputs == {"A", "10", "1", ""}

\* Largest card id the model lets POST hand out.
MaxCardId == 7

\* parseInt(req.params.id): a number or NaN
NaN == None

isNaN(cardId) == cardId = NaN

CardIdInputs == {Some(n) : n \in 1..(MaxCardId + 1)} \cup {NaN}

Card(id, suit, value) == [id |-> id, suit |-> suit, value |-> value]

\* validateCard(suit, value).isValid
validateCard(suit, value) == suit \in validSuits /\ value \in validValues

\* cards.findIndex(c => c.id === cardId); 0 stands for -1
RECURSIVE FindIndexFrom(_, _, _)
FindIndexFrom(cs, cardId, i) ==
    IF i > Len(cs) THEN 0
    ELSE IF cs[i].id = cardId THEN i
    ELSE FindIndexFrom(cs, cardId, i + 1)

findIndex(cs, cardId) == FindIndexFrom(cs, cardId, 1)

\* cards.splice(cardIndex, 1)
splice(cs, i) == SubSeq(cs, 1, i - 1) \o SubSeq(cs, i + 1, Len(cs))

CardOutcome(cs, n, code) == [cards |-> cs, nextId |-> n, code |-> code]

\* Faulty variant of PostResult: the existing-card test is left out.
PostResult_NoExistingTest(cs, n, suit, value) ==
    IF suit = "" \/ value = "" THEN CardOutcome(cs, n, 400)
    ELSE IF ~validateCard(suit, value) THEN CardOutcome(cs, n, 400)
    ELSE CardOutcome(Append(cs, Card(n, suit, value)), n + 1, 201)

\* POST /api/cards
PostResult(cs, n, suit, value) ==
    IF suit = "" \/ value = "" THEN CardOutcome(cs, n, 400)
    ELSE IF ~validateCard(suit, value) THEN CardOutcome(cs, n, 400)
    ELSE IF \E i \in 1..Len(cs) : cs[i].suit = suit /\ cs[i].value = value
    THEN CardOutcome(cs, n, 409)
    ELSE CardOutcome(Append(cs, Card(n, suit, value)), n + 1, 201)

\* PUT /api/cards/:id
PutResult(cs, n, cardId, suit, value) ==
    IF isNaN(cardId) THEN CardOutcome(cs, n, 400)
    ELSE
    LET cardIndex == findIndex(cs, Val(cardId))
    IN  IF cardIndex = 0 THEN CardOutcome(cs, n, 404)
        ELSE IF suit = "" \/ value = "" THEN CardOutcome(cs, n, 400)
        ELSE IF ~validateCard(suit, value) THEN CardOutcome(cs, n, 400)
        ELSE IF \E i \in 1..Len(cs) :
                    cs[i].suit = suit /\ cs[i].value = value /\ cs[i].id # Val(cardId)
        THEN CardOutcome(cs, n, 409)
        ELSE CardOutcome([cs EXCEPT ![cardIndex] = Card(cs[cardIndex].id, suit, value)],
                         n, 200)

\* DELETE /api/cards/:id
DeleteResult(cs, n, cardId) ==
    IF isNaN(cardId) THEN CardOutcome(cs, n, 400)
    ELSE
    LET cardIndex == findIndex(cs, Val(cardId))
    IN  IF cardIndex = 0 THEN CardOutcome(cs, n, 404)
        ELSE CardOutcome(splice(cs, cardIndex), n, 200)

PostCard(suit, value) ==
    /\ LET r == PostResult(cards, nextId, suit, value)
       IN  /\ r.code = 201 => nextId <= MaxCardId
           /\ cards' = r.cards /\ nextId' = r.nextId /\ res' = r.code
    /\ UNCHANGED <<vars, rosterVars>>

PutCard(cardId, suit, value) ==
    /\ LET r == PutResult(cards, nextId, cardId, suit, value)
       IN  cards' = r.cards /\ nextId' = r.nextId /\ res' = r.code
    /\ UNCHANGED <<vars, rosterVars>>

DeleteCard(cardId) ==
    /\ LET r == DeleteResult(cards, nextId, cardId)
       IN  cards' = r.cards /\ nextId' = r.nextId /\ res' = r.code
    /\ UNCHANGED <<vars, rosterVars>>

\* GET /api/cards and GET /api/cards/:id
GetCards(cardId) ==
    /\ res' = (IF isNaN(cardId) THEN 400
               ELSE IF findIndex(cards, Val(cardId)) = 0 THEN 404 ELSE 200)
    /\ UNCHANGED <<cards, nextId, vars, rosterVars>>

CardsNext ==
    \/ \E suit \in SuitInputs, value \in ValueInputs : PostCard(suit, value)
    \/ \E cardId \in CardIdInputs, suit \in SuitInputs, value \in ValueInputs :
          PutCard(cardId, suit, value)
    \/ \E cardId \in CardIdInputs : DeleteCard(cardId)
    \/ \E cardId \in CardIdInputs : GetCards(cardId)

\* ---------------------------------------------------------------- start-up
\* Every program as constructed: the seat tables, `let employees = []`,
\* `let cards = [...]` and `let nextId = 6`.
Init ==
    /\ server \in {"timer", "api"}
    /\ now = 0
    /\ seats = [id \in SeatIds |-> AvailableSeat]
    /\ timers = {}
    /\ apiSeats = [id \in SeatIds |-> ApiSeat(id)]
    /\ last = Response("start", 0, "", NoView)
    /\ employees = <<>>
    /\ console = "Welcome"
    /\ cards = <<Card(1, "Hearts", "A"), Card(2, "Diamonds", "K"),
                 Card(3, "Clubs", "Q"), Card(4, "Spades", "J"),
                 Card(5, "Hearts", "10")>>
    /\ nextId = Len(cards) + 1
    /\ res = 0

\* ---------------------------------------------------------- specifications
\* The programs are separate processes: a behaviour runs one of them and the
\* state of the others stays as constructed.
\* The seat servers.
Spec == Init /\ [][Next]_allVars

\* The event loop keeps running the timers whose delay has elapsed, and time
\* passes.
FairSpec == Spec /\ WF_vars(Tick) /\ WF_vars(RunTimers)

\* The employee roster CLI.
RosterSpec == Init /\ [][RosterNext]_allVars

\* The card API.
CardSpec == Init /\ [][CardsNext]_allVars

\* =================================================================== claims
\* The spec's error kinds, read off the responses of the two servers.
AlreadyLocked(r) ==
    r.op = "lock" /\ (r.code = 423 \/ (r.code = 400 /\ r.msg = "Seat is locked"))

WrongHolder(r) == r.code = 403

Success(r) == r.code = 200

LockExpired(r) == r.op = "confirm" /\ (r.code = 408 \/ r.msg = "Lock has expired")

NotLocked(r) ==
    /\ r.code = 400
    /\ r.msg \in {"not locked", "Seat must be locked before confirming",
                  "Seat is not locked"}

\* The lock deadline of a locked seat of the api server: lock time + ttl.
ApiDeadline(seat) == NumberOf(seat.lockedAt) + LOCK_EXPIRATION_TIME

\* ---------------------------------------------------------------------- C1
\* C1: a Lock on an Available seat succeeds and leaves the seat Locked under
\* the caller; a Lock by another user delivered next (with no other operation
\* on the seat in between, while the first lock is running) fails with
\* AlreadyLocked and changes nothing.  So of two concurrent Locks by two
\* users, in either order, exactly one succeeds and its caller holds the seat.
C1_ExactlyOneLockWins ==
    [][\A id \in SeatIds, u1 \in Users, u2 \in Users :
        /\ (/\ server = "timer" /\ last'.op = "lock" /\ u2 # u1
            /\ seats[id].status = "available"
            /\ LockSeat(id, u1)) =>
              /\ Success(last')
              /\ seats'[id].status = "locked" /\ seats'[id].lockedBy = u1
              /\ \A t \in now..(now + LOCK_TTL - 1) :
                    LET r2 == LockResult(seats', timers', id, u2, t)
                    IN  /\ AlreadyLocked(Response("lock", r2.code, r2.msg, NoView))
                        /\ r2.seats = seats'
                        /\ r2.timers = timers'
        /\ (/\ server = "api" /\ last'.op = "lock" /\ u2 # u1
            /\ apiSeats[id].status = "available"
            /\ ApiLockSeat(id, u1)) =>
              /\ Success(last')
              /\ apiSeats'[id].status = "locked" /\ apiSeats'[id].lockedBy = u1
              /\ \A t \in now..(now + LOCK_EXPIRATION_TIME - 1) :
                    LET r2 == ApiLockResult(apiSeats', id, u2, t)
                    IN  /\ AlreadyLocked(Response("lock", r2.code, r2.msg, NoView))
                        /\ r2.seats[id] = apiSeats'[id]
      ]_vars

\* A second Lock has just been turned away from a seat locked in this very
\* tick, every other seat being Available.
C1_Witness ==
    /\ AlreadyLocked(last)
    /\ \/ /\ server = "timer"
          /\ \E id \in SeatIds :
                /\ seats[id].status = "locked"
                /\ seats[id].lockExpiresAt = Some(now + LOCK_TTL)
                /\ \A j \in SeatIds \ {id} : seats[j].status = "available"
       \/ /\ server = "api"
          /\ \E id \in SeatIds :
                /\ apiSeats[id].status = "locked"
                /\ apiSeats[id].lockedAt = Some(now)
                /\ \A j \in SeatIds \ {id} : apiSeats[j].status = "available"

\* ---------------------------------------------------------------------- C2
\* C2: Confirm by a user who is not the holder of an unexpired lock fails with
\* WrongHolder and leaves the seat (status, holder, deadline, timer) as it
\* was; and a seat only becomes Booked by a Confirm of the holder of its lock.
C2_ConfirmWrongHolder ==
    [][\A id \in SeatIds :
        /\ \A q \in RequestUsers :
              (/\ server = "timer" /\ last'.op = "confirm"
               /\ seats[id].status = "locked"
               /\ Val(seats[id].lockExpiresAt) > now
               /\ seats[id].lockedBy # QueryUser(q)
               /\ ConfirmSeat(id, q)) =>
                  /\ WrongHolder(last')
                  /\ seats' = seats
                  /\ timers' = timers
        /\ \A u \in Users :
              (/\ server = "api" /\ last'.op = "confirm"
               /\ apiSeats[id].status = "locked"
               /\ now < ApiDeadline(apiSeats[id])
               /\ apiSeats[id].lockedBy # u
               /\ ApiConfirmSeat(id, u)) =>
                  /\ WrongHolder(last')
                  /\ apiSeats'[id] = apiSeats[id]
        /\ (seats[id].status # "booked" /\ seats'[id].status = "booked") =>
              \E q \in RequestUsers :
                  /\ ConfirmSeat(id, q)
                  /\ seats[id].status = "locked"
                  /\ seats[id].lockedBy = QueryUser(q)
        /\ (apiSeats[id].status # "booked" /\ apiSeats'[id].status = "booked") =>
              \E u \in Users :
                  /\ ApiConfirmSeat(id, u)
                  /\ apiSeats[id].status = "locked"
                  /\ apiSeats[id].lockedBy = u
      ]_vars

\* A Confirm has just been refused as WrongHolder while a lock is running.
C2_Witness ==
    /\ last.op = "confirm"
    /\ WrongHolder(last)
    /\ \/ server = "timer" /\ \E id \in SeatIds :
              seats[id].status = "locked" /\ Val(seats[id].lockExpiresAt) > now
       \/ server = "api" /\ \E id \in SeatIds :
              apiSeats[id].status = "locked" /\ now < ApiDeadline(apiSeats[id])

\* ---------------------------------------------------------------------- C3
\* C3: Booked is terminal.  No request and no timer callback changes the
\* record of a Booked seat: Lock is refused as already booked, Confirm as not
\* locked, Unlock as booked, Release as not locked.
C3_BookedIsTerminal ==
    [][\A id \in SeatIds :
        /\ seats[id].status = "booked" =>
              /\ seats'[id] = seats[id]
              /\ \A q \in RequestUsers :
                    /\ (last'.op = "lock" /\ LockSeat(id, q)) => last'.code = 409
                    /\ (last'.op = "confirm" /\ ConfirmSeat(id, q)) => last'.code = 400
              /\ (last'.op = "unlock" /\ UnlockSeat(id)) => last'.code = 409
        /\ apiSeats[id].status = "booked" =>
              /\ apiSeats'[id] = apiSeats[id]
              /\ \A u \in Users :
                    /\ (last'.op = "lock" /\ ApiLockSeat(id, u)) =>
                          (last'.code = 400 /\ last'.msg = "Seat is booked")
                    /\ (last'.op = "confirm" /\ ApiConfirmSeat(id, u)) => last'.code = 400
                    /\ (last'.op = "release" /\ ApiReleaseSeat(id, u)) => last'.code = 400
      ]_vars

\* An Unlock (timer server) or a Release (api server) has just been refused
\* on a registry whose seats are all Booked.
C3_Witness ==
    \/ /\ server = "timer"
       /\ last.op = "unlock" /\ last.code = 409
       /\ \A id \in SeatIds : seats[id].status = "booked"
    \/ /\ server = "api"
       /\ last.op = "release" /\ last.code = 400
       /\ \A id \in SeatIds : apiSeats[id].status = "booked"

\* ---------------------------------------------------------------------- C4
\* C4: an expiry callback changes the registry only when, at firing time, its
\* seat is Locked with lockExpiresAt at or before now, and then it makes that
\* seat Available with no holder and no deadline; it never changes a seat that
\* is Booked, Available or Locked with a deadline still ahead, nor another seat.
C4_ExpiryRechecks ==
    [][\A h \in timers :
        (last'.op = "expiry" /\ TimerFire(h)) =>
            /\ \A j \in SeatIds \ {h.seat} : seats'[j] = seats[j]
            /\ (\/ seats[h.seat].status # "locked"
                \/ Val(seats[h.seat].lockExpiresAt) > now) => seats' = seats
            /\ seats' # seats =>
                  /\ seats[h.seat].status = "locked"
                  /\ Val(seats[h.seat].lockExpiresAt) <= now
                  /\ seats'[h.seat].status = "available"
                  /\ seats'[h.seat].lockedBy = NULL
                  /\ seats'[h.seat].lockExpiresAt = None
      ]_vars

\* An expiry callback has just run and released its seat, while another seat
\* is Locked with its deadline still ahead.
C4_Witness ==
    /\ server = "timer"
    /\ last.op = "expiry"
    /\ \E id \in SeatIds : seats[id].status = "available"
    /\ \E j \in SeatIds : seats[j].status = "locked" /\ Val(seats[j].lockExpiresAt) > now

\* ---------------------------------------------------------------------- C5
\* C5: a lock that is neither confirmed nor released does not hold the seat
\* for ever.  Timer server: every lock (seat, deadline) eventually ends, by the
\* expiry timer if by nothing else.  Api server: a list request made more than
\* the ttl after the lock time shows the seat available.  In both, a Lock by
\* another user on a seat whose lock is past its deadline succeeds.
C5_LockEnds ==
    /\ \A id \in SeatIds, d \in LockDeadlines :
          (server = "timer" /\ seats[id].status = "locked"
             /\ seats[id].lockExpiresAt = Some(d))
          ~> ~(seats[id].status = "locked" /\ seats[id].lockExpiresAt = Some(d))
    /\ [][\A id \in SeatIds :
            /\ (/\ server = "api" /\ last'.op = "list"
                /\ apiSeats[id].status = "locked"
                /\ now > ApiDeadline(apiSeats[id])
                /\ ApiGetSeats) => last'.view[id] = "available"
            /\ \A u \in Users :
                  /\ (/\ server = "timer" /\ last'.op = "lock"
                      /\ seats[id].status = "locked"
                      /\ seats[id].lockedBy # u
                      /\ Val(seats[id].lockExpiresAt) <= now
                      /\ LockSeat(id, u)) =>
                         /\ Success(last')
                         /\ seats'[id].status = "locked"
                         /\ seats'[id].lockedBy = u
                  /\ (/\ server = "api" /\ last'.op = "lock"
                      /\ apiSeats[id].status = "locked"
                      /\ apiSeats[id].lockedBy # u
                      /\ now > ApiDeadline(apiSeats[id])
                      /\ ApiLockSeat(id, u)) =>
                         /\ Success(last')
                         /\ apiSeats'[id].status = "locked"
                         /\ apiSeats'[id].lockedBy = u
        ]_vars

\* Every lock taken has expired: the last step was an expiry callback, no
\* timer is pending and every seat is Available again, after the ttl and the
\* timer's extra delay.
C5_Witness ==
    /\ server = "timer"
    /\ last.op = "expiry"
    /\ timers = {}
    /\ \A id \in SeatIds : seats[id].status = "available"
    /\ now > LOCK_TTL + TIMER_BUFFER

\* ---------------------------------------------------------------------- C6
\* C6: a list request never reports Locked for a seat whose lock deadline is
\* at or before the time of the request.
C6_ListNeverStale ==
    [][\A id \in SeatIds :
        /\ (/\ server = "timer" /\ last'.op = "list"
            /\ seats[id].status = "locked"
            /\ Val(seats[id].lockExpiresAt) <= now
            /\ GetSeats) => last'.view[id] # "locked"
        /\ (/\ server = "api" /\ last'.op = "list"
            /\ apiSeats[id].status = "locked"
            /\ ApiDeadline(apiSeats[id]) <= now
            /\ ApiGetSeats) => last'.view[id] # "locked"
      ]_vars

\* ---------------------------------------------------------------------- C7
\* C7: Confirm by the holder of a lock whose deadline has passed fails with
\* LockExpired, which is not the NotLocked response, and leaves the seat
\* Available with no holder, no deadline and no pending timer.
C7_ExpiredConfirm ==
    [][\A id \in SeatIds, u \in Users :
        /\ (/\ server = "timer" /\ last'.op = "confirm"
            /\ seats[id].status = "locked"
            /\ seats[id].lockedBy = u
            /\ Val(seats[id].lockExpiresAt) <= now
            /\ ConfirmSeat(id, u)) =>
               /\ LockExpired(last') /\ ~NotLocked(last')
               /\ seats'[id] = AvailableSeat
               /\ \A h \in timers' : h.seat # id
        /\ (/\ server = "api" /\ last'.op = "confirm"
            /\ apiSeats[id].status = "locked"
            /\ apiSeats[id].lockedBy = u
            /\ ApiDeadline(apiSeats[id]) < now
            /\ ApiConfirmSeat(id, u)) =>
               /\ LockExpired(last') /\ ~NotLocked(last')
               /\ apiSeats'[id] = ApiSeat(id)
      ]_vars

\* ---------------------------------------------------------------------- C8
\* C8: a seat has a holder recorded if and only if it is Locked or Booked.
HolderOf(seat) == seat.lockedBy

ApiHolderOf(seat) == IF seat.lockedBy # NULL THEN seat.lockedBy ELSE seat.bookedBy

C8_HolderIffNotAvailable ==
    \A id \in SeatIds :
        /\ HolderOf(seats[id]) # NULL <=> seats[id].status \in {"locked", "booked"}
        /\ ApiHolderOf(apiSeats[id]) # NULL <=> apiSeats[id].status \in {"locked", "booked"}

\* ---------------------------------------------------------------------- C9
\* C9: the status of every seat is one of available, locked, booked, and the
\* lock deadline (lockExpiresAt of the timer server, lockedAt of the api
\* server) is set if and only if the status is locked.
C9_StatusAndDeadline ==
    \A id \in SeatIds :
        /\ seats[id].status \in {"available", "locked", "booked"}
        /\ seats[id].lockExpiresAt # None <=> seats[id].status = "locked"
        /\ apiSeats[id].status \in {"available", "locked", "booked"}
        /\ apiSeats[id].lockedAt # None <=> apiSeats[id].status = "locked"

\* A lock has just been confirmed while another seat is Locked.
C9_Witness ==
    /\ last.op = "confirm" /\ Success(last)
    /\ \/ /\ server = "timer"
          /\ \E i, j \in SeatIds : seats[i].status = "booked" /\ seats[j].status = "locked"
       \/ /\ server = "api"
          /\ \E i, j \in SeatIds :
                apiSeats[i].status = "booked" /\ apiSeats[j].status = "locked"

\* --------------------------------------------------------------------- C10
\* C10: Confirm by the holder of a Locked seat succeeds and books the seat if
\* and only if the current time is strictly before the lock deadline.
C10_ConfirmIffBeforeDeadline ==
    [][\A id \in SeatIds, u \in Users :
        /\ (/\ server = "timer" /\ last'.op = "confirm"
            /\ seats[id].status = "locked"
            /\ seats[id].lockedBy = u
            /\ ConfirmSeat(id, u)) =>
               ((Success(last') /\ seats'[id].status = "booked")
                    <=> now < Val(seats[id].lockExpiresAt))
        /\ (/\ server = "api" /\ last'.op = "confirm"
            /\ apiSeats[id].status = "locked"
            /\ apiSeats[id].lockedBy = u
            /\ ApiConfirmSeat(id, u)) =>
               ((Success(last') /\ apiSeats'[id].status = "booked")
                    <=> now < ApiDeadline(apiSeats[id]))
      ]_vars

\* --------------------------------------------------------------------- C11
AlreadyBooked(r) ==
    r.op = "lock" /\ (r.code = 409 \/ (r.code = 400 /\ r.msg = "Seat is booked"))

\* C11: a Lock on a Booked seat fails with AlreadyBooked and a Lock on a seat
\* Locked with its deadline ahead fails with AlreadyLocked, two different
\* responses, whoever calls (the holder included); the seat, its holder, its
\* deadline and its timer are left as they were.
C11_LockRefused ==
    [][\A id \in SeatIds :
        /\ \A q \in RequestUsers :
              /\ (/\ server = "timer" /\ last'.op = "lock"
                  /\ seats[id].status = "booked"
                  /\ LockSeat(id, q)) =>
                     /\ AlreadyBooked(last') /\ ~AlreadyLocked(last')
                     /\ seats' = seats /\ timers' = timers
              /\ (/\ server = "timer" /\ last'.op = "lock"
                  /\ seats[id].status = "locked"
                  /\ Val(seats[id].lockExpiresAt) > now
                  /\ LockSeat(id, q)) =>
                     /\ AlreadyLocked(last') /\ ~AlreadyBooked(last')
                     /\ seats' = seats /\ timers' = timers
        /\ \A u \in Users :
              /\ (/\ server = "api" /\ last'.op = "lock"
                  /\ apiSeats[id].status = "booked"
                  /\ ApiLockSeat(id, u)) =>
                     /\ AlreadyBooked(last') /\ ~AlreadyLocked(last')
                     /\ apiSeats'[id] = apiSeats[id]
              /\ (/\ server = "api" /\ last'.op = "lock"
                  /\ apiSeats[id].status = "locked"
                  /\ now < ApiDeadline(apiSeats[id])
                  /\ ApiLockSeat(id, u)) =>
                     /\ AlreadyLocked(last') /\ ~AlreadyBooked(last')
                     /\ apiSeats'[id] = apiSeats[id]
      ]_vars

\* A Lock has just been refused as already booked, on a registry with one
\* seat Booked and the other Locked with its deadline ahead.
C11_Witness ==
    /\ AlreadyBooked(last)
    /\ \/ /\ server = "timer"
          /\ \E i, j \in SeatIds :
                /\ seats[i].status = "booked"
                /\ seats[j].status = "locked" /\ Val(seats[j].lockExpiresAt) > now
       \/ /\ server = "api"
          /\ \E i, j \in SeatIds :
                /\ apiSeats[i].status = "booked"
                /\ apiSeats[j].status = "locked" /\ now < ApiDeadline(apiSeats[j])

\* --------------------------------------------------------------------- C12
\* What Release promises for seat id and caller u, given the step's response
\* and the seat before and after.
ReleaseContract(before, after, r, u) ==
    /\ (before.status = "locked" /\ before.lockedBy # u) =>
          (WrongHolder(r) /\ after = before)
    /\ (before.status = "locked" /\ before.lockedBy = u) =>
          /\ Success(r)
          /\ after.status = "available"
          /\ after.lockedBy = NULL /\ after.lockedAt = None
    /\ before.status # "locked" =>
          (NotLocked(r) /\ after = before)

\* C12 as stated: Release(id, u) on a Locked seat held by h fails with
\* WrongHolder for u # h and leaves the seat Locked under h with the same
\* deadline, succeeds for u = h and makes the seat Available with holder and
\* deadline cleared; on a seat that is not Locked it fails with NotLocked and
\* changes nothing.
C12_Release ==
    [][\A id \in SeatIds, u \in Users :
        (/\ server = "api" /\ last'.op = "release"
         /\ ApiReleaseSeat(id, u)) =>
            ReleaseContract(apiSeats[id], apiSeats'[id], last', u)
      ]_vars

\* C12 amended: the same, for a seat whose lock is not more than the ttl old
\* when the request arrives.  A lock older than that is released by the
\* clean-up that runs in front of every request, so Release answers NotLocked
\* to every caller, the holder included, and the seat is left Available with
\* holder and lock time cleared.
C12_ReleaseOfLiveLock ==
    [][\A id \in SeatIds, u \in Users :
        (/\ server = "api" /\ last'.op = "release"
         /\ ApiReleaseSeat(id, u)) =>
            IF apiSeats[id].status = "locked" /\ now > ApiDeadline(apiSeats[id])
            THEN /\ NotLocked(last')
                 /\ apiSeats'[id].status = "available"
                 /\ apiSeats'[id].lockedBy = NULL
                 /\ apiSeats'[id].lockedAt = None
            ELSE ReleaseContract(apiSeats[id], apiSeats'[id], last', u)
      ]_vars

\* A Release has just been refused as WrongHolder and a seat is still Locked
\* with a lock not older than the ttl.
C12_Witness ==
    /\ server = "api"
    /\ last.op = "release" /\ WrongHolder(last)
    /\ \E id \in SeatIds :
          /\ apiSeats[id].status = "locked"
          /\ now <= ApiDeadline(apiSeats[id])

\* --------------------------------------------------------------------- C13
\* C13: Unlock on an Available seat succeeds and changes nothing; Unlock on a
\* Locked seat, whoever holds it and whether its deadline has passed or not,
\* succeeds, cancels the seat's timer and leaves the seat Available with no
\* holder and no deadline; a second Unlock of a seat that was not Booked
\* succeeds and leaves the state the first Unlock produced.
C13_UnlockIdempotent ==
    [][\A id \in SeatIds :
        (/\ server = "timer" /\ last'.op = "unlock"
         /\ seats[id].status # "booked"
         /\ UnlockSeat(id)) =>
            /\ Success(last')
            /\ seats[id].status = "available" =>
                  (seats' = seats /\ timers' = timers)
            /\ seats[id].status = "locked" =>
                  /\ seats'[id].status = "available"
                  /\ seats'[id].lockedBy = NULL
                  /\ seats'[id].lockExpiresAt = None
                  /\ seats'[id].timeoutId = None
                  /\ ~\E h \in timers' : h.seat = id
            /\ LET again == UnlockResult(seats', timers', id)
               IN  /\ again.code = 200
                   /\ again.seats = seats'
                   /\ again.timers = timers'
      ]_vars

\* An Unlock has just cleared a lock: the seat it was given is Available and
\* has no timer, while the other seat is still Locked past its deadline with
\* its timer pending (so Unlock also meets expired locks).
C13_Witness ==
    /\ server = "timer"
    /\ last.op = "unlock" /\ last.code = 200 /\ last.msg = "lock cleared"
    /\ \E i, j \in SeatIds :
          /\ seats[i].status = "available" /\ ~\E h \in timers : h.seat = i
          /\ seats[j].status = "locked" /\ Val(seats[j].lockExpiresAt) <= now

\* --------------------------------------------------------------------- C14
InvalidIdentity(r) == r.code = 400 /\ r.msg = "User ID is required"

\* C14: Lock, Confirm and Release called with a missing or empty caller
\* identity fail with InvalidIdentity and change no seat; no seat is ever
\* taken for a caller that gave no identity.
C14_IdentityRequired ==
    [][\A id \in SeatIds :
        /\ (/\ server = "timer" /\ last'.op \in {"lock", "confirm"}
            /\ (LockSeat(id, "") \/ ConfirmSeat(id, ""))) =>
               /\ InvalidIdentity(last')
               /\ seats' = seats /\ timers' = timers
        /\ (/\ server = "api" /\ last'.op \in {"lock", "confirm", "release"}
            /\ (\/ ApiLockSeat(id, "") \/ ApiConfirmSeat(id, "")
                \/ ApiReleaseSeat(id, ""))) =>
               /\ InvalidIdentity(last')
               /\ apiSeats'[id] = apiSeats[id]
      ]_vars

\* --------------------------------------------------------------------- C15
NotFound(r) == r.code = 404

\* The ids a request can name that have no record.
UnknownIds == RequestIds \ SeatIds

\* What the clean-up in front of a request of the api server may do to a
\* seat: nothing, or release a lock that is more than the ttl old.
SweptOrSame(before, after, t) ==
    \/ after = before
    \/ /\ before.status = "locked" /\ t > ApiDeadline(before)
       /\ after.status = "available"
       /\ after.lockedBy = NULL /\ after.lockedAt = None
       /\ after.id = before.id /\ after.bookedBy = before.bookedBy

\* C15 as stated: no step adds or deletes a seat record, and Lock, Confirm,
\* Release or Unlock of an id outside the valid range fails with NotFound and
\* changes no existing seat.
C15_FixedSeatSet ==
    [][/\ DOMAIN seats' = SeatIds /\ DOMAIN apiSeats' = SeatIds
       /\ \A id \in UnknownIds :
            /\ \A q \in RequestUsers :
                  (/\ server = "timer" /\ last'.op \in {"lock", "confirm", "unlock"}
                   /\ (LockSeat(id, q) \/ ConfirmSeat(id, q) \/ UnlockSeat(id))) =>
                      (NotFound(last') /\ seats' = seats /\ timers' = timers)
            /\ \A u \in Users :
                  (/\ server = "api" /\ last'.op \in {"lock", "confirm", "release"}
                   /\ (\/ ApiLockSeat(id, u) \/ ApiConfirmSeat(id, u)
                       \/ ApiReleaseSeat(id, u))) =>
                      (NotFound(last') /\ apiSeats' = apiSeats)
      ]_vars

\* C15 amended: no step adds or deletes a seat record, and Lock, Confirm,
\* Release or Unlock of an id outside the valid range fails with NotFound (in
\* the api server, when the caller gave an identity) without creating a
\* record; it changes no existing seat, except that in the api server the
\* clean-up in front of the request releases every lock more than the ttl old.
C15_FixedSeatSetUpToCleanUp ==
    [][/\ DOMAIN seats' = SeatIds /\ DOMAIN apiSeats' = SeatIds
       /\ \A id \in UnknownIds :
            /\ \A q \in RequestUsers :
                  (/\ server = "timer" /\ last'.op \in {"lock", "confirm", "unlock"}
                   /\ (LockSeat(id, q) \/ ConfirmSeat(id, q) \/ UnlockSeat(id))) =>
                      (NotFound(last') /\ seats' = seats /\ timers' = timers)
            /\ \A u \in Users :
                  (/\ server = "api" /\ last'.op \in {"lock", "confirm", "release"}
                   /\ (\/ ApiLockSeat(id, u) \/ ApiConfirmSeat(id, u)
                       \/ ApiReleaseSeat(id, u))) =>
                      /\ NotFound(last')
                      /\ \A j \in SeatIds :
                            SweptOrSame(apiSeats[j], apiSeats'[j], now)
      ]_vars

\* A request has just been refused as NotFound while one seat is Locked and
\* another is Booked.
C15_Witness ==
    /\ NotFound(last)
    /\ \/ /\ server = "timer"
          /\ \E i, j \in SeatIds :
                seats[i].status = "locked" /\ seats[j].status = "booked"
       \/ /\ server = "api"
          /\ \E i, j \in SeatIds :
                apiSeats[i].status = "locked" /\ apiSeats[j].status = "booked"

\* --------------------------------------------------------------------- C16
\* The timers pending for a seat.
PendingTimers(id) == {h \in timers : h.seat = id}

\* C16: in every reachable state each seat has at most one pending expiry
\* timer.
C16_AtMostOneTimer ==
    \A id \in SeatIds : Cardinality(PendingTimers(id)) <= 1

\* A Lock has just succeeded at a time when an earlier lock can have run out
\* already, and every seat is Locked with exactly one timer pending, the one
\* whose handle is on its record.
C16_Witness ==
    /\ server = "timer"
    /\ last.op = "lock" /\ Success(last)
    /\ now >= LOCK_TTL
    /\ \A id \in SeatIds :
          /\ seats[id].status = "locked"
          /\ PendingTimers(id) = {Val(seats[id].timeoutId)}

\* --------------------------------------------------------------------- C17
\* C17: in every reachable state a seat has a pending expiry timer if and only
\* if its status is Locked, and the pending timer is the one whose handle is
\* on the seat's record.
C17_TimerIffLocked ==
    server = "timer" =>
        \A id \in SeatIds :
            /\ (PendingTimers(id) # {}) <=> (seats[id].status = "locked")
            /\ seats[id].status = "locked" =>
                  (/\ seats[id].timeoutId # None
                   /\ Val(seats[id].timeoutId) \in timers)

\* A Confirm has just booked a seat: that seat has no timer, while the other
\* seat is Locked and has one.
C17_Witness ==
    /\ server = "timer"
    /\ last.op = "confirm" /\ Success(last)
    /\ \E i, j \in SeatIds :
          /\ seats[i].status = "booked" /\ PendingTimers(i) = {}
          /\ seats[j].status = "locked" /\ PendingTimers(j) # {}

\* --------------------------------------------------------------------- C18
\* C18: a Lock by u of a seat that is Locked with its deadline at or before
\* now and its timer still pending succeeds: the old timer is cancelled, the
\* seat is Locked under u with deadline now + ttl and one fresh timer is
\* armed.  And a lock whose deadline is ahead is changed by nothing but a
\* successful Confirm or Unlock; in particular no timer callback releases it,
\* so the new lock lasts its full ttl.
C18_RelockAfterLazyExpiry ==
    [][\A id \in SeatIds :
        /\ \A u \in Users :
              (/\ server = "timer" /\ last'.op = "lock"
               /\ seats[id].status = "locked"
               /\ Val(seats[id].lockExpiresAt) <= now
               /\ PendingTimers(id) # {}
               /\ LockSeat(id, u)) =>
                  /\ Success(last')
                  /\ Val(seats[id].timeoutId) \notin timers'
                  /\ seats'[id].status = "locked"
                  /\ seats'[id].lockedBy = u
                  /\ seats'[id].lockExpiresAt = Some(now + LOCK_TTL)
                  /\ seats'[id].timeoutId = Some(TimerHandle(id, now))
                  /\ {h \in timers' : h.seat = id} = {TimerHandle(id, now)}
        /\ (/\ server = "timer"
            /\ seats[id].status = "locked"
            /\ Val(seats[id].lockExpiresAt) > now
            /\ seats'[id] # seats[id]) =>
               (last'.op \in {"confirm", "unlock"} /\ Success(last'))
      ]_vars

\* A Lock has just succeeded at a time when an earlier lock of the same seat
\* can have run out: the seat is Locked until now + ttl, with the timer armed
\* now as its only timer, and the other seat holds a lock that has run out and
\* whose timer has not fired.
C18_Witness ==
    /\ server = "timer"
    /\ last.op = "lock" /\ Success(last)
    /\ now >= LOCK_TTL
    /\ \E i, j \in SeatIds :
          /\ seats[i].status = "locked"
          /\ seats[i].lockExpiresAt = Some(now + LOCK_TTL)
          /\ PendingTimers(i) = {TimerHandle(i, now)}
          /\ seats[j].status = "locked"
          /\ Val(seats[j].lockExpiresAt) <= now
          /\ PendingTimers(j) # {}

\* --------------------------------------------------------------------- C19
\* C19: Confirm tests NotLocked, then LockExpired, then WrongHolder: a Confirm
\* by a user who is not the holder, of a Locked seat whose deadline has
\* passed, fails with LockExpired, not with WrongHolder, and leaves the seat
\* Available.
C19_ExpiredBeforeWrongHolder ==
    [][\A id \in SeatIds, u \in Users :
        /\ (/\ server = "timer" /\ last'.op = "confirm"
            /\ seats[id].status = "locked"
            /\ seats[id].lockedBy # u
            /\ Val(seats[id].lockExpiresAt) <= now
            /\ ConfirmSeat(id, u)) =>
               /\ LockExpired(last') /\ ~WrongHolder(last')
               /\ seats'[id].status = "available"
        /\ (/\ server = "api" /\ last'.op = "confirm"
            /\ apiSeats[id].status = "locked"
            /\ apiSeats[id].lockedBy # u
            /\ ApiDeadline(apiSeats[id]) <= now
            /\ ApiConfirmSeat(id, u)) =>
               /\ LockExpired(last') /\ ~WrongHolder(last')
               /\ apiSeats'[id].status = "available"
      ]_vars

\* --------------------------------------------------------------------- C20
\* A request of the timer server that names seat i.
TimerRequestOn(i) ==
    \/ \E q \in RequestUsers : LockSeat(i, q) \/ ConfirmSeat(i, q)
    \/ UnlockSeat(i)

\* A request of the api server that names seat i.
ApiRequestOn(i) ==
    \E u \in RequestUsers :
        ApiLockSeat(i, u) \/ ApiConfirmSeat(i, u) \/ ApiReleaseSeat(i, u)

\* C20 as stated: Lock, Confirm, Release and Unlock of seat i, succeeding or
\* failing, leave status, holder, deadline and timer of every other seat
\* unchanged.  (Stated seat by seat: a step that changes seat j is not a
\* request that names another seat.)
C20_OtherSeatsUntouched ==
    [][\A j \in SeatIds :
        /\ (/\ server = "timer"
            /\ last'.op \in {"lock", "confirm", "unlock"}
            /\ \/ seats'[j] # seats[j]
               \/ {h \in timers' : h.seat = j} # PendingTimers(j)) =>
               ~\E i \in RequestIds \ {j} : TimerRequestOn(i)
        /\ (/\ server = "api"
            /\ last'.op \in {"lock", "confirm", "release"}
            /\ apiSeats'[j] # apiSeats[j]) =>
               ~\E i \in RequestIds \ {j} : ApiRequestOn(i)
      ]_vars

\* What the api server does to a seat that a request does not name: it
\* releases it when its lock is more than the ttl old and leaves it alone
\* otherwise.
CleanUpOnly(before, after, t) ==
    /\ SweptOrSame(before, after, t)
    /\ (before.status = "locked" /\ t > ApiDeadline(before)) =>
          after.status = "available"

\* C20 amended: the same, except that in the api server the clean-up in front
\* of every request releases every other seat whose lock is more than the ttl
\* old (and changes an other seat in no other way).
C20_OtherSeatsUntouchedUpToCleanUp ==
    [][\A j \in SeatIds :
        /\ (/\ server = "timer"
            /\ last'.op \in {"lock", "confirm", "unlock"}
            /\ \/ seats'[j] # seats[j]
               \/ {h \in timers' : h.seat = j} # PendingTimers(j)) =>
               ~\E i \in RequestIds \ {j} : TimerRequestOn(i)
        /\ (/\ server = "api"
            /\ last'.op \in {"lock", "confirm", "release"}
            /\ ~CleanUpOnly(apiSeats[j], apiSeats'[j], now)) =>
               ~\E i \in RequestIds \ {j} : ApiRequestOn(i)
      ]_vars

\* A Confirm of one seat of the api server has just succeeded while the
\* other seat holds a lock that has reached its deadline.
C20_Witness ==
    /\ server = "api"
    /\ last.op = "confirm" /\ Success(last)
    /\ \E i, j \in SeatIds :
          /\ apiSeats[i].status = "booked"
          /\ apiSeats[j].status = "locked"
          /\ now = ApiDeadline(apiSeats[j])

\* --------------------------------------------------------------------- C21
\* No two employees of the list have the same stored ID.
UniqueEmployeeIds(emps) ==
    \A i, j \in 1..Len(emps) : i # j => emps[i].id # emps[j].id

\* C21: after any sequence of Add Employee and Remove Employee with non-blank
\* inputs, blanks around them included, no two employees of the list have the
\* same stored ID; an Add whose ID is already in the list is rejected and
\* leaves the list unchanged.
C21_EmployeeIdsUnique ==
    [][/\ UniqueEmployeeIds(employees')
       /\ \A name \in NameInputs, id \in IdInputs :
             (/\ trim(name) # <<>> /\ trim(id) # <<>>
              /\ FindEmployee(employees, trim(id))
              /\ AddEmployee(name, id)) =>
                 (employees' = employees /\ console' = "already exists")
      ]_allVars

\* --------------------------------------------------------------------- C22
\* No two cards of the collection share (suit, value) and no two share an id.
CardsDistinct(cs) ==
    \A i, j \in 1..Len(cs) :
        i # j => /\ <<cs[i].suit, cs[i].value>> # <<cs[j].suit, cs[j].value>>
                 /\ cs[i].id # cs[j].id

\* A card other than the one with id `except` has this suit and value.
Taken(cs, suit, value, except) ==
    \E i \in 1..Len(cs) :
        cs[i].suit = suit /\ cs[i].value = value /\ cs[i].id # except

\* C22: after any sequence of POST, PUT and DELETE no two cards share (suit,
\* value) and no two share an id; every id in the collection is below nextId
\* and nextId never goes down, so the id of a deleted card is not handed out
\* again; a POST of a pair some card has, and a PUT of a pair another card
\* has, fail with 409 and leave the collection unchanged.
C22_CardsUnique ==
    [][/\ CardsDistinct(cards) /\ CardsDistinct(cards')
       /\ nextId' >= nextId
       /\ \A i \in 1..Len(cards') : cards'[i].id < nextId'
       /\ \A suit \in validSuits \cap SuitInputs, value \in validValues \cap ValueInputs :
             /\ (/\ Taken(cards, suit, value, 0)
                 /\ PostCard(suit, value)) =>
                    (res' = 409 /\ cards' = cards /\ nextId' = nextId)
             /\ \A n \in 1..MaxCardId :
                   (/\ findIndex(cards, n) # 0
                    /\ Taken(cards, suit, value, n)
                    /\ PutCard(Some(n), suit, value)) =>
                       (res' = 409 /\ cards' = cards /\ nextId' = nextId)
      ]_allVars

\* A duplicate has just been refused with 409 in a collection from which
\* card 1 was deleted and to which a card was added since start-up.
C22_Witness ==
    /\ res = 409
    /\ findIndex(cards, 1) = 0
    /\ \E i \in 1..Len(cards) : cards[i].id > 5

====
